---- MODULE Spec2Model ----
(***************************************************************************)
(* A model of GunSocketClusterWorker (src/src/GunSocketClusterWorker.ts):  *)
(* the login handshake, the subscribe and publish middleware, the wrapped  *)
(* adapter and the diff fan-out.                                           *)
(*                                                                         *)
(* JavaScript strings that the code parses (proof messages, channel names, *)
(* socket ids, souls) are sequences of one-character strings, so that      *)
(* split, parseInt and the prefix-stripping replace are computed and not   *)
(* assumed.  A JavaScript number is a record [nan, v]: NaN is a value the  *)
(* code produces and compares.                                             *)
(***************************************************************************)
EXTENDS Integers, Sequences, FiniteSets, TLC

VARIABLES
  env,        \* process.env: SC_AUTH_MAX_DRIFT and GUN_OWNER_PUB
  login,      \* the 'login' event being dispatched to its handler, if any
  awaiting,   \* respond callbacks handed to the login handler and not yet called
  authToken,  \* socket.authToken of every socket
  pending,    \* logins suspended at `await verify(...)`
  resp,       \* the last call of a login's respond callback
  gate,       \* the last call of a middleware's next callback
  store,      \* the graph the adapter holds: soul -> node (0: no node)
  seeds,      \* subscription seeds under way (readNode, then the timer)
  writes,     \* puts under way (adapter.put, then the acknowledgment)
  published,  \* scServer.exchange.publish calls, in order
  emitted,    \* socket.emit('#publish', ...) calls, in order
  open,       \* the sockets whose connection is open
  delivered   \* what the transport hands to the clients, in order

authVars == <<env, login, awaiting, authToken, pending, resp>>
pipeVars == <<gate, store, seeds, writes, published, emitted>>
netVars == <<open, delivered>>
vars == <<env, login, awaiting, authToken, pending, resp, gate, store, seeds, writes, published, emitted, open, delivered>>

(***************************************************************************)
(* Bounds of the model.                                                    *)
(***************************************************************************)
MaxPending == 1   \* logins that may be suspended at the verifier at once
MaxWrites == 2    \* put-carrying publishes on the write channel in one run
MaxSubs == 2      \* seeded subscribes in one run

(***************************************************************************)
(* JavaScript values.                                                      *)
(***************************************************************************)
Undefined == "undefined"
NaN == [nan |-> TRUE, v |-> 0]
Num(n) == [nan |-> FALSE, v |-> n]

Digits == {"0", "1", "2", "3", "4", "5", "6", "7", "8", "9"}

DigitVal(c) ==
  CASE c = "0" -> 0 [] c = "1" -> 1 [] c = "2" -> 2 [] c = "3" -> 3
    [] c = "4" -> 4 [] c = "5" -> 5 [] c = "6" -> 6 [] c = "7" -> 7
    [] c = "8" -> 8 [] c = "9" -> 9

\* String.prototype.split('/'): the pieces between the separators; a string
\* without separator is one piece, the empty string is one empty piece.
RECURSIVE SplitFrom(_, _, _)
SplitFrom(s, i, cur) ==
  IF i > Len(s) THEN <<cur>>
  ELSE IF s[i] = "/" THEN <<cur>> \o SplitFrom(s, i + 1, <<>>)
  ELSE SplitFrom(s, i + 1, Append(cur, s[i]))

Split(s) == SplitFrom(s, 1, <<>>)

\* The longest prefix of s made of decimal digits.
RECURSIVE DigitPrefix(_)
DigitPrefix(s) ==
  IF s = <<>> \/ Head(s) \notin Digits THEN <<>>
  ELSE <<Head(s)>> \o DigitPrefix(Tail(s))

RECURSIVE DecimalValue(_, _)
DecimalValue(s, acc) ==
  IF s = <<>> THEN acc ELSE DecimalValue(Tail(s), 10 * acc + DigitVal(Head(s)))

RECURSIVE StripSpaces(_)
StripSpaces(s) ==
  IF s # <<>> /\ Head(s) = " " THEN StripSpaces(Tail(s)) ELSE s

\* parseInt(s, 10): leading blanks skipped, an optional sign, then the longest
\* run of digits; NaN when there is no digit.  What follows the digits is
\* ignored.
ParseInt(s) ==
  LET t    == StripSpaces(s)
      neg  == t # <<>> /\ Head(t) = "-"
      body == IF t # <<>> /\ Head(t) \in {"-", "+"} THEN Tail(t) ELSE t
      ds   == DigitPrefix(body)
  IN  IF ds = <<>> THEN NaN
      ELSE Num(IF neg THEN 0 - DecimalValue(ds, 0) ELSE DecimalValue(ds, 0))

\* Math.abs(a - b) on JavaScript numbers.
AbsDiff(a, b) ==
  IF a.nan \/ b.nan THEN NaN
  ELSE Num(IF a.v >= b.v THEN a.v - b.v ELSE b.v - a.v)

\* a > b on JavaScript numbers: false as soon as one side is NaN.
Greater(a, b) == ~a.nan /\ ~b.nan /\ a.v > b.v

\* Truthiness of a JavaScript number.
Truthy(a) == ~a.nan /\ a.v # 0

(***************************************************************************)
(* Sockets, keys and the environment.                                      *)
(***************************************************************************)
SockA == <<"a">>
SockB == <<"b">>
Sockets == {SockA, SockB}

OwnerPub == "O"
OtherPub == "P"

DefaultMaxDrift == 300000

\* An environment variable is unset or a string.
Unset == [set |-> FALSE, s |-> <<>>]
EnvStr(s) == [set |-> TRUE, s |-> s]

Envs ==
  { [SC_AUTH_MAX_DRIFT |-> Unset,           GUN_OWNER_PUB |-> OwnerPub],
    [SC_AUTH_MAX_DRIFT |-> EnvStr(<<"2">>), GUN_OWNER_PUB |-> OwnerPub] }

\* (process.env.SC_AUTH_MAX_DRIFT && parseInt(process.env.SC_AUTH_MAX_DRIFT, 10))
\*   || 1000 * 60 * 5
MaxDriftOf(e) ==
  LET v == e.SC_AUTH_MAX_DRIFT
  IN  IF v.set /\ v.s # <<>> /\ Truthy(ParseInt(v.s))
      THEN ParseInt(v.s) ELSE Num(DefaultMaxDrift)

(***************************************************************************)
(* Login requests.                                                         *)
(***************************************************************************)
Join(a, b) == a \o <<"/">> \o b

ProofMsgs ==
  { Join(SockA, <<"5">>), Join(SockA, <<"9">>), Join(SockB, <<"5">>),
    Join(SockA, <<"x">>),                   \* the timestamp is no number
    SockA,                                  \* no separator
    Join(<<>>, <<"5">>),                    \* empty connection id
    Join(Join(SockA, <<"5">>), <<"9">>) }   \* three parts

\* req.proof is absent, or an object whose m is absent or a string.
NoProof == [present |-> FALSE, hasM |-> FALSE, m |-> <<>>]
ProofNoM == [present |-> TRUE, hasM |-> FALSE, m |-> <<>>]
Proof(m) == [present |-> TRUE, hasM |-> TRUE, m |-> m]

Req(pub, proof) == [pub |-> pub, proof |-> proof]

\* The owner's key with every proof, another key with the proofs that name
\* a socket and are in time, and the requests that lack a part.
LoginReqs ==
  { Req(OwnerPub, Proof(m)) : m \in ProofMsgs }
    \cup { Req(OtherPub, Proof(Join(id, <<"5">>))) : id \in Sockets }
    \cup { Req(Undefined, Proof(Join(SockA, <<"5">>))), Req(OwnerPub, NoProof),
           Req(OwnerPub, ProofNoM) }

\* new Date().getTime() at the time of a login.
Times == {6, 300009}

\* const [socketId, timestampStr] = req.proof.m.split('/')
SocketIdOf(m) == Split(m)[1]

\* const timestamp = parseInt(timestampStr, 10); a missing second piece is
\* undefined, which parseInt turns into NaN.
TimestampOf(m) ==
  LET parts == Split(m)
  IN  IF Len(parts) >= 2 THEN ParseInt(parts[2]) ELSE NaN

(***************************************************************************)
(* authenticateLogin, up to its await.                                     *)
(***************************************************************************)
NoToken == [set |-> FALSE, pub |-> Undefined, timestamp |-> NaN]
Token(pub, ts) == [set |-> TRUE, pub |-> pub, timestamp |-> ts]

\* What the continuation after the await uses: socket, req and timestamp
\* (which follows from req).
NoClosure == [live |-> FALSE, sock |-> <<>>, req |-> Req(Undefined, NoProof)]
Closure(s, req) == [live |-> TRUE, sock |-> s, req |-> req]

Slots == 1..MaxPending

\* respond(err, msg)
Respond(err, msg) == [err |-> err, msg |-> msg]

ErrDrift == "Exceeded max clock drift"
ErrSocketId == "Socket ID doesn't match"
MsgMissing == "Missing login info"
MsgInvalid == "Invalid login"
None == "none"

\* socket.on('login', (req, respond) => ...): a login event arrives.
NoLogin == [live |-> FALSE, sock |-> <<>>, req |-> Req(Undefined, NoProof)]

loginEvent(s, req) ==
  /\ open[s]
  /\ ~login.live
  /\ login' = [live |-> TRUE, sock |-> s, req |-> req]
  /\ awaiting' = awaiting + 1
  /\ UNCHANGED <<env, authToken, pending, resp>>
  /\ UNCHANGED pipeVars
  /\ UNCHANGED netVars

\* LoginBranch without its drift check.
LoginBranchNoDrift(s, req, now, e) ==
  IF req.pub = Undefined \/ ~req.proof.present THEN "missing"
  ELSE IF ~req.proof.hasM THEN "throw"
  ELSE IF SocketIdOf(req.proof.m) = <<>> \/ SocketIdOf(req.proof.m) # s
       THEN "mismatch"
  ELSE "verify"

\* LoginBranch without its socket id check.
LoginBranchNoSocketId(s, req, now, e) ==
  IF req.pub = Undefined \/ ~req.proof.present THEN "missing"
  ELSE IF ~req.proof.hasM THEN "throw"
  ELSE IF Greater(AbsDiff(Num(now), TimestampOf(req.proof.m)), MaxDriftOf(e))
       THEN "drift"
  ELSE "verify"

\* The branch authenticateLogin takes before it awaits the verifier.
LoginBranch(s, req, now, e) ==
  IF req.pub = Undefined \/ ~req.proof.present THEN "missing"
  ELSE IF ~req.proof.hasM THEN "throw"
  ELSE IF Greater(AbsDiff(Num(now), TimestampOf(req.proof.m)), MaxDriftOf(e))
       THEN "drift"
  ELSE IF SocketIdOf(req.proof.m) = <<>> \/ SocketIdOf(req.proof.m) # s
       THEN "mismatch"
  ELSE "verify"

authenticateLogin(now) ==
  LET s   == login.sock
      req == login.req
      b   == LoginBranch(s, req, now, env)
  IN  /\ login.live
      /\ login' = NoLogin
      /\ CASE b = "missing"  -> /\ resp' = Respond(None, MsgMissing)
                                /\ awaiting' = awaiting - 1
                                /\ pending' = pending
            [] b = "throw"    -> /\ resp' = Respond(None, MsgInvalid)
                                /\ awaiting' = awaiting - 1
                                /\ pending' = pending
            [] b = "drift"    -> /\ resp' = Respond(ErrDrift, None)
                                /\ awaiting' = awaiting - 1
                                /\ pending' = pending
            [] b = "mismatch" -> /\ resp' = Respond(ErrSocketId, None)
                                /\ awaiting' = awaiting - 1
                                /\ pending' = pending
            [] b = "verify"   -> /\ \E k \in Slots :
                                      /\ ~pending[k].live
                                      /\ pending' = [pending EXCEPT ![k] = Closure(s, req)]
                                /\ resp' = resp
                                /\ awaiting' = awaiting
      /\ UNCHANGED <<env, authToken>>
      /\ UNCHANGED pipeVars
      /\ UNCHANGED netVars

\* The verifier settles: true, false, or an exception.
VerifyResults == {"true", "false", "throw"}

\* The token of a login that takes the key of the environment, not of the request.
NewTokenOwner(c) == Token(env.GUN_OWNER_PUB, TimestampOf(c.req.proof.m))

\* socket.setAuthToken({ pub: req.pub, timestamp })
NewToken(c) == Token(c.req.pub, TimestampOf(c.req.proof.m))

verifyDone(k, result) ==
  /\ pending[k].live
  /\ LET c == pending[k]
     IN  IF result = "true"
         THEN /\ authToken' = [authToken EXCEPT ![c.sock] = NewToken(c)]
              /\ resp' = Respond(None, None)
         ELSE /\ authToken' = authToken
              /\ resp' = Respond(None, MsgInvalid)
  /\ pending' = [pending EXCEPT ![k] = NoClosure]
  /\ awaiting' = awaiting - 1
  /\ UNCHANGED <<env, login>>
  /\ UNCHANGED pipeVars
  /\ UNCHANGED netVars


(***************************************************************************)
(* Channels, souls and messages.                                           *)
(***************************************************************************)
GunPut == <<"g", "u", "n", "/", "p", "u", "t">>
GunGet == <<"g", "u", "n", "/", "g", "e", "t">>
NodesPrefix == <<"g", "u", "n", "/", "n", "o", "d", "e", "s", "/">>
DiffChannel == <<"g", "u", "n", "/", "p", "u", "t", "/", "d", "i", "f", "f">>
ReplyPrefix == <<"g", "u", "n", "/", "@">>

SoulA == <<"A">>
SoulB == <<"B">>
EmptySoul == <<>>
Souls == {EmptySoul, SoulA, SoulB}

\* The order in which `for (const soul in diff)` visits the keys of a diff.
SoulOrder == <<EmptySoul, SoulA, SoulB>>

\* `gun/nodes/${soul}`
NodeChannel(soul) == NodesPrefix \o soul

\* req.channel.replace(/^gun\/nodes\//, ''): the prefix is dropped when the
\* channel starts with it, otherwise the channel comes back unchanged.
StripNodesPrefix(ch) ==
  IF Len(ch) >= Len(NodesPrefix) /\ SubSeq(ch, 1, Len(NodesPrefix)) = NodesPrefix
  THEN SubSeq(ch, Len(NodesPrefix) + 1, Len(ch))
  ELSE ch

\* A property that holds a string or is undefined.
NoId == [set |-> FALSE, s |-> <<>>]
Id(s) == [set |-> TRUE, s |-> s]

\* `${x}` of a string or of undefined.
Template(x) ==
  IF x.set THEN x.s ELSE <<"u", "n", "d", "e", "f", "i", "n", "e", "d">>

\* A put payload: absent, null, or a map soul -> node (0: a null entry).
PutAbsent == [kind |-> "absent", map |-> <<>>]
PutNull == [kind |-> "null", map |-> <<>>]
PutMap(m) == [kind |-> "map", map |-> m]

Absent == "absent"

\* A GunMsg: '#', '@', err, ok, put.  '#' and '@' hold a string or nothing.
Msg(id, reply, err, ok, put) ==
  [id |-> id, reply |-> reply, err |-> err, ok |-> ok, put |-> put]

\* isAdmin that takes any identity for the owner's.
isAdminAnyToken(s) == authToken[s].set

\* isAdmin(socket)
isAdmin(s) == authToken[s].set /\ authToken[s].pub = env.GUN_OWNER_PUB

\* next(err); NoCall before any middleware has run.
NoCall == [allow |-> FALSE, err |-> "no call"]
Allow == [allow |-> TRUE, err |-> None]
Deny(err) == [allow |-> FALSE, err |-> err]

ErrSubscribe == "You aren't allowed to subscribe to ${req.channel}"
ErrPublish == "You aren't allowed to write to this channel"

(***************************************************************************)
(* subscribeMiddleware and the seed it starts.                             *)
(***************************************************************************)
SubChannels ==
  {GunPut, GunGet, DiffChannel, NodeChannel(EmptySoul), NodeChannel(SoulA),
   NodeChannel(SoulB)}

SeedSlots == 1..MaxSubs

\* A per-soul subscribe under way: how far its seed is, and whether the
\* transport has registered the subscription that next() allowed.
NoSeed == [stage |-> "free", sock |-> <<>>, channel |-> <<>>, soul |-> <<>>,
           registered |-> FALSE,
           data |-> Msg(NoId, NoId, Absent, Absent, PutAbsent)]

DigitChars == <<"1", "2", "3", "4", "5", "6", "7", "8", "9">>

\* Math.random().toString(36).slice(2): an id of its own for every seed.
SeedId(k) == Id(<<"s", DigitChars[k]>>)

\* What subscribeMiddleware does with a request: deny it, pass it, or pass
\* it and seed it.
SubscribeBranch(s, ch) ==
  IF (ch = GunPut \/ ch = GunGet) /\ ~isAdmin(s) THEN "deny"
  ELSE IF StripNodesPrefix(ch) = <<>> \/ StripNodesPrefix(ch) = ch THEN "pass"
  ELSE "seed"

subscribeMiddleware(s, ch) ==
  LET b == SubscribeBranch(s, ch)
  IN  /\ open[s]
      /\ CASE b = "deny" -> /\ gate' = Deny(ErrSubscribe)
                            /\ seeds' = seeds
            [] b = "pass" -> /\ gate' = Allow
                            /\ seeds' = seeds
            [] b = "seed" -> /\ gate' = Allow
                            /\ \E k \in SeedSlots :
                                 /\ seeds[k].stage = "free"
                                 /\ \A j \in SeedSlots : j < k => seeds[j].stage # "free"
                                 /\ seeds' = [seeds EXCEPT ![k] =
                                      [stage |-> "reading", sock |-> s, channel |-> ch,
                                       soul |-> StripNodesPrefix(ch),
                                       registered |-> FALSE,
                                       data |-> Msg(SeedId(k), NoId, Absent, Absent, PutAbsent)]]
      /\ UNCHANGED <<store, writes, published, emitted>>
      /\ UNCHANGED authVars
      /\ UNCHANGED netVars

\* After next() without an error the transport registers the subscription,
\* in its own time.
subscribeSocket(k) ==
  /\ seeds[k].stage # "free"
  /\ ~seeds[k].registered
  /\ open[seeds[k].sock]
  /\ seeds' = [seeds EXCEPT ![k].registered = TRUE]
  /\ UNCHANGED <<gate, store, writes, published, emitted>>
  /\ UNCHANGED authVars
  /\ UNCHANGED netVars

\* The socket is subscribed to the channel at the transport.
Subscribed(s, ch) ==
  /\ open[s]
  /\ \E k \in SeedSlots :
       seeds[k].registered /\ seeds[k].sock = s /\ seeds[k].channel = ch

\* SeedMsg that wraps an absent node like a node.
SeedMsgNoNull(id, soul, node, failed) ==
  IF failed THEN Msg(id, NoId, "Error fetching node", Absent, PutAbsent)
  ELSE Msg(id, NoId, Absent, Absent, PutMap((soul :> node)))

\* The message the promise chain of readNode builds: the node read, or the
\* error message of the catch.
SeedMsg(id, soul, node, failed) ==
  IF failed THEN Msg(id, NoId, "Error fetching node", Absent, PutAbsent)
  ELSE Msg(id, NoId, Absent, Absent,
           IF node # 0 THEN PutMap((soul :> node)) ELSE PutNull)

\* readNodeDone whose read leaves a mark in the graph.
readNodeDoneTouching(k, failed) ==
  /\ seeds[k].stage = "reading"
  /\ seeds' = [seeds EXCEPT ![k].stage = "timer",
                            ![k].data = SeedMsg(seeds[k].data.id, seeds[k].soul,
                                                store[seeds[k].soul], failed)]
  /\ store' = [store EXCEPT ![seeds[k].soul] = @ + 1]
  /\ UNCHANGED <<gate, writes, published, emitted>>
  /\ UNCHANGED authVars
  /\ UNCHANGED netVars

\* adapter.get settles and the timer of 25 ms is set.
readNodeDone(k, failed) ==
  /\ seeds[k].stage = "reading"
  /\ seeds' = [seeds EXCEPT ![k].stage = "timer",
                            ![k].data = SeedMsg(seeds[k].data.id, seeds[k].soul,
                                                store[seeds[k].soul], failed)]
  /\ UNCHANGED <<gate, store, writes, published, emitted>>
  /\ UNCHANGED authVars
  /\ UNCHANGED netVars

\* req.socket.emit('#publish', msg)
Emit(s, ch, data) == [sock |-> s, channel |-> ch, data |-> data]

\* What an emit on a socket hands to its client: the message while the
\* connection is open, nothing once it is closed.
EmitDelivers(e) == IF open[e.sock] THEN <<e>> ELSE <<>>

\* The timer fires.
seedEmit(k) ==
  /\ seeds[k].stage = "timer"
  /\ emitted' = Append(emitted, Emit(seeds[k].sock, seeds[k].channel, seeds[k].data))
  /\ delivered' = delivered
                    \o EmitDelivers(Emit(seeds[k].sock, seeds[k].channel, seeds[k].data))
  /\ seeds' = [seeds EXCEPT ![k].stage = "done"]
  /\ UNCHANGED <<gate, store, writes, published, open>>
  /\ UNCHANGED authVars

(***************************************************************************)
(* publishInMiddleware, processPut, the wrapped adapter and publishDiff.   *)
(***************************************************************************)
PubChannels == {GunPut, GunGet, NodeChannel(SoulA)}

\* req.data: absent, or a message with or without an id and a put payload.
\* What the payload holds is the adapter's business; the adapter's answer
\* is chosen when its put settles.
NoData == [present |-> FALSE, id |-> NoId, hasPut |-> FALSE]
Data(id, hasPut) == [present |-> TRUE, id |-> id, hasPut |-> hasPut]

MsgM == <<"m">>

PubMsgs == {NoData, Data(Id(MsgM), FALSE), Data(Id(MsgM), TRUE), Data(NoId, TRUE)}

WriteSlots == 1..MaxWrites

NoWrite == [stage |-> "free", sock |-> <<>>, id |-> NoId, ok |-> FALSE]

\* pseudoRandomText(): an id of its own for every acknowledgment and diff.
AckId(w) == Id(<<"k", DigitChars[w]>>)
DiffId(w) == <<"d", DigitChars[w]>>

\* PublishBranch that gates no channel.
PublishBranchOpen(s, ch, msg) ==
  IF ch # GunPut THEN "pass"
  ELSE IF ~msg.present \/ ~msg.hasPut THEN "pass"
  ELSE "put"

\* PublishBranch that does not look for the put payload.
PublishBranchAnyMsg(s, ch, msg) ==
  IF ch # GunPut THEN (IF isAdmin(s) THEN "pass" ELSE "deny")
  ELSE IF ~msg.present THEN "pass"
  ELSE "put"

\* What publishInMiddleware does with a request: deny it, pass it, or pass
\* it and process its put.
PublishBranch(s, ch, msg) ==
  IF ch # GunPut THEN (IF isAdmin(s) THEN "pass" ELSE "deny")
  ELSE IF ~msg.present \/ ~msg.hasPut THEN "pass"
  ELSE "put"

publishInMiddleware(s, ch, msg) ==
  LET b == PublishBranch(s, ch, msg)
  IN  /\ open[s]
      /\ CASE b = "deny" -> /\ gate' = Deny(ErrPublish)
                            /\ writes' = writes
            [] b = "pass" -> /\ gate' = Allow
                            /\ writes' = writes
            [] b = "put"  -> /\ gate' = Allow
                            /\ \E w \in WriteSlots :
                                 /\ writes[w].stage = "free"
                                 /\ \A j \in WriteSlots : j < w => writes[j].stage # "free"
                                 /\ writes' = [writes EXCEPT ![w] =
                                      [stage |-> "putting", sock |-> s, id |-> msg.id,
                                       ok |-> FALSE]]
      /\ UNCHANGED <<store, seeds, published, emitted>>
      /\ UNCHANGED authVars
      /\ UNCHANGED netVars

\* exchange.publish(channel, data)
Publish(ch, data) == [channel |-> ch, data |-> data]

\* PerSoul that publishes null entries too.
RECURSIVE PerSoulNulls(_, _, _)
PerSoulNulls(msgId, diff, i) ==
  IF i > Len(SoulOrder) THEN <<>>
  ELSE LET soul == SoulOrder[i]
       IN  IF soul \notin DOMAIN diff \/ soul = <<>>
           THEN PerSoulNulls(msgId, diff, i + 1)
           ELSE <<Publish(NodeChannel(soul),
                          Msg(Id(msgId \o <<"/">> \o soul), NoId, Absent, Absent,
                              PutMap((soul :> diff[soul]))))>>
                  \o PerSoulNulls(msgId, diff, i + 1)

\* The loop of publishDiff over the keys from position i on: empty souls and
\* null entries are skipped.
RECURSIVE PerSoul(_, _, _)
PerSoul(msgId, diff, i) ==
  IF i > Len(SoulOrder) THEN <<>>
  ELSE LET soul == SoulOrder[i]
       IN  IF soul \notin DOMAIN diff \/ soul = <<>> \/ diff[soul] = 0
           THEN PerSoul(msgId, diff, i + 1)
           ELSE <<Publish(NodeChannel(soul),
                          Msg(Id(msgId \o <<"/">> \o soul), NoId, Absent, Absent,
                              PutMap((soul :> diff[soul]))))>>
                  \o PerSoul(msgId, diff, i + 1)

\* publishDiff that broadcasts before it visits the souls.
publishDiffBroadcastFirst(msgId, put) ==
  IF put.kind # "map" THEN <<>>
  ELSE <<Publish(DiffChannel, Msg(Id(msgId), NoId, Absent, Absent, put))>>
         \o PerSoul(msgId, put.map, 1)

\* publishDiff(msg): the publications it makes, in order.
publishDiff(msgId, put) ==
  IF put.kind # "map" THEN <<>>
  ELSE PerSoul(msgId, put.map, 1)
         \o <<Publish(DiffChannel, Msg(Id(msgId), NoId, Absent, Absent, put))>>

\* wrappedThen that publishes whatever map it gets.
wrappedThenAlways(msgId, diff) == publishDiff(msgId, diff)

\* The then-callback of the wrapped put: nothing for an empty diff.
wrappedThen(msgId, diff) ==
  IF diff.kind # "map" \/ DOMAIN diff.map = {} THEN <<>>
  ELSE publishDiff(msgId, diff)

\* The diffs the adapter may answer with: null, or a map over some souls
\* whose entries are null or the node as written.
DiffShapes ==
  { (SoulA :> "set"),
    (SoulA :> "set") @@ (SoulB :> "set"),
    (SoulA :> "null") @@ (SoulB :> "set"),
    (EmptySoul :> "set") @@ (SoulA :> "set"),
    (SoulB :> "null"),
    (EmptySoul :> "set") }

DiffOf(shape) ==
  PutMap([soul \in DOMAIN shape |->
            IF shape[soul] = "set" THEN store[soul] + 1 ELSE 0])

PutOutcomes ==
  {[failed |-> TRUE, diff |-> PutNull], [failed |-> FALSE, diff |-> PutNull],
   [failed |-> FALSE, diff |-> PutMap(<<>>)]}
    \cup { [failed |-> FALSE, diff |-> DiffOf(shape)] : shape \in DiffShapes }

\* The graph after a put that answered with diff.
Applied(diff) ==
  [soul \in Souls |->
     IF diff.kind = "map" /\ soul \in DOMAIN diff.map /\ diff.map[soul] # 0
     THEN diff.map[soul] ELSE store[soul]]

\* The sockets the exchange hands a publication on the channel to.
SockOrder == <<SockA, SockB>>
Receivers(ch) == SelectSeq(SockOrder, LAMBDA s : Subscribed(s, ch))

\* What exchange.publish hands to the clients, for a sequence of publications.
RECURSIVE Deliveries(_)
Deliveries(pubs) ==
  IF pubs = <<>> THEN <<>>
  ELSE LET p  == Head(pubs)
           to == Receivers(p.channel)
       IN  [i \in 1..Len(to) |-> Emit(to[i], p.channel, p.data)]
             \o Deliveries(Tail(pubs))

\* putDone that settles without publishing the diff.
putDoneUnpublished(w, out) ==
  /\ writes[w].stage = "putting"
  /\ store' = IF out.failed THEN store ELSE Applied(out.diff)
  /\ writes' = [writes EXCEPT ![w].stage = "settled", ![w].ok = ~out.failed]
  /\ UNCHANGED <<gate, seeds, published, emitted>>
  /\ UNCHANGED authVars
  /\ UNCHANGED netVars

\* putDone that puts its publications before the earlier ones.
putDoneOvertaking(w, out) ==
  /\ writes[w].stage = "putting"
  /\ IF out.failed
     THEN /\ store' = store
          /\ published' = published
          /\ delivered' = delivered
     ELSE /\ store' = Applied(out.diff)
          /\ published' = wrappedThen(DiffId(w), out.diff) \o published
          /\ delivered' = Deliveries(wrappedThen(DiffId(w), out.diff)) \o delivered
  /\ writes' = [writes EXCEPT ![w].stage = "settled", ![w].ok = ~out.failed]
  /\ UNCHANGED <<gate, seeds, emitted, open>>
  /\ UNCHANGED authVars

\* The underlying adapter.put settles; on success the wrapper publishes the
\* diff before its own promise resolves.
putDone(w, out) ==
  /\ writes[w].stage = "putting"
  /\ IF out.failed
     THEN /\ store' = store
          /\ published' = published
          /\ delivered' = delivered
     ELSE /\ store' = Applied(out.diff)
          /\ published' = published \o wrappedThen(DiffId(w), out.diff)
          /\ delivered' = delivered \o Deliveries(wrappedThen(DiffId(w), out.diff))
  /\ writes' = [writes EXCEPT ![w].stage = "settled", ![w].ok = ~out.failed]
  /\ UNCHANGED <<gate, seeds, emitted, open>>
  /\ UNCHANGED authVars

\* processPutResult that reports success whatever happened.
processPutResultOk(w, id, ok) == Msg(AckId(w), id, "null", "true", PutAbsent)

\* What processPut returns.
processPutResult(w, id, ok) ==
  IF ok THEN Msg(AckId(w), id, "null", "true", PutAbsent)
  ELSE Msg(AckId(w), id, "Error saving", "false", PutAbsent)

\* ackEmit that sends the acknowledgment through the exchange.
ackEmitExchange(w) ==
  /\ writes[w].stage = "settled"
  /\ published' = Append(published,
       Publish(ReplyPrefix \o Template(writes[w].id),
               processPutResult(w, writes[w].id, writes[w].ok)))
  /\ emitted' = Append(emitted,
       Emit(writes[w].sock, ReplyPrefix \o Template(writes[w].id),
            processPutResult(w, writes[w].id, writes[w].ok)))
  /\ delivered' = delivered
  /\ writes' = [writes EXCEPT ![w].stage = "done"]
  /\ UNCHANGED <<gate, store, seeds, open>>
  /\ UNCHANGED authVars

\* The then-callback of processPut: the acknowledgment goes to req.socket.
ackEmit(w) ==
  /\ writes[w].stage = "settled"
  /\ emitted' = Append(emitted,
       Emit(writes[w].sock, ReplyPrefix \o Template(writes[w].id),
            processPutResult(w, writes[w].id, writes[w].ok)))
  /\ delivered' = delivered
       \o EmitDelivers(Emit(writes[w].sock, ReplyPrefix \o Template(writes[w].id),
                             processPutResult(w, writes[w].id, writes[w].ok)))
  /\ writes' = [writes EXCEPT ![w].stage = "done"]
  /\ UNCHANGED <<gate, store, seeds, published, open>>
  /\ UNCHANGED authVars

\* The connection of a socket closes; the worker has no handler for it.
disconnect(s) ==
  /\ open[s]
  /\ open' = [open EXCEPT ![s] = FALSE]
  /\ delivered' = delivered
  /\ UNCHANGED pipeVars
  /\ UNCHANGED authVars

(***************************************************************************)
(* The worker after construction, and its steps.                           *)
(***************************************************************************)
InitWith(envs, stores) ==
  /\ env \in envs
  /\ login = NoLogin
  /\ awaiting = 0
  /\ open = [s \in Sockets |-> TRUE]
  /\ delivered = <<>>
  /\ authToken = [s \in Sockets |-> NoToken]
  /\ pending = [k \in Slots |-> NoClosure]
  /\ resp = Respond(None, None)
  /\ gate = NoCall
  /\ store \in stores
  /\ seeds = [k \in SeedSlots |-> NoSeed]
  /\ writes = [w \in WriteSlots |-> NoWrite]
  /\ published = <<>>
  /\ emitted = <<>>

\* The adapter's storage outlives the worker: at construction the graph may
\* hold nodes already.
NoNodes == [soul \in Souls |-> 0]
Stores == [Souls -> {0, 1}]

Init == InitWith(Envs, Stores)

\* Login events of every shape.
LoginEvent == \E s \in Sockets, req \in LoginReqs : loginEvent(s, req)

\* Login events with a proof made for the socket that presents it.
FreshProof(s) == Proof(Join(s, <<"5">>))
LoginEventFresh ==
  \E s \in Sockets, pub \in {OwnerPub, OtherPub} :
    loginEvent(s, Req(pub, FreshProof(s)))

Login == \E now \in Times : authenticateLogin(now)

Verified == \E k \in Slots, r \in VerifyResults : verifyDone(k, r)

Subscribe == \E s \in Sockets, ch \in SubChannels : subscribeMiddleware(s, ch)
ReadNodeDone == \E k \in SeedSlots, failed \in BOOLEAN : readNodeDone(k, failed)
SeedEmit == \E k \in SeedSlots : seedEmit(k)
PublishIn == \E s \in Sockets, ch \in PubChannels, msg \in PubMsgs : publishInMiddleware(s, ch, msg)
PutDone == \E w \in WriteSlots : \E out \in PutOutcomes : putDone(w, out)
AckEmit == \E w \in WriteSlots : ackEmit(w)
SubscribeSocket == \E k \in SeedSlots : subscribeSocket(k)
Disconnect == \E s \in Sockets : disconnect(s)

\* Publishes that start no put: another channel, or no put payload.
PublishNoPut ==
  \E s \in Sockets, ch \in PubChannels, msg \in PubMsgs :
    /\ ch # GunPut \/ ~msg.present \/ ~msg.hasPut
    /\ publishInMiddleware(s, ch, msg)

\* Subscribes that start no seed: no channel of a named soul.
SubscribeNoSeed ==
  \E s \in Sockets, ch \in SubChannels \ {NodeChannel(SoulA), NodeChannel(SoulB)} :
    subscribeMiddleware(s, ch)

\* The whole worker.
Next ==
  \/ LoginEvent
  \/ Login
  \/ Verified
  \/ Subscribe
  \/ ReadNodeDone
  \/ SeedEmit
  \/ PublishIn
  \/ PutDone
  \/ AckEmit
  \/ SubscribeSocket
  \/ Disconnect

Spec == Init /\ [][Next]_vars

\* The worker under a part of the requests it may receive; every behaviour
\* of these is a behaviour of Spec.

\* Logins only.
NextAuth == LoginEvent \/ Login \/ Verified

\* Every environment, and a graph without nodes.
InitEmpty == InitWith(Envs, {NoNodes})

SpecAuth == InitEmpty /\ [][NextAuth]_vars

DefaultEnvs == {e \in Envs : e.SC_AUTH_MAX_DRIFT = Unset}

InitDefault == InitWith(DefaultEnvs, {NoNodes})

\* Fresh logins, and the subscribes and publishes that start nothing.
NextGate ==
  \/ LoginEventFresh
  \/ Login
  \/ Verified
  \/ SubscribeNoSeed
  \/ PublishNoPut

SpecGate == InitDefault /\ [][NextGate]_vars

\* Publishes from sockets that never log in.
NextWrite == PublishIn \/ PutDone \/ AckEmit

SpecWrite == InitDefault /\ [][NextWrite]_vars

\* The adapter answers every put, and a settled promise runs its callbacks.
FairSpecWrite == SpecWrite /\ WF_vars(PutDone) /\ WF_vars(AckEmit)

\* Logins on SockA with the owner's key or another, and its publishes on
\* the write channel.
LoginEventA ==
  \E pub \in {OwnerPub, OtherPub} : loginEvent(SockA, Req(pub, FreshProof(SockA)))

PublishWrite == \E msg \in PubMsgs : publishInMiddleware(SockA, GunPut, msg)

NextOpen ==
  \/ LoginEventA
  \/ Login
  \/ Verified
  \/ PublishWrite
  \/ PutDone
  \/ AckEmit

SpecOpen == InitDefault /\ [][NextOpen]_vars

\* A graph that holds the node of SoulA or not.
InitStored == InitWith(DefaultEnvs, {st \in Stores : st[EmptySoul] = 0 /\ st[SoulB] = 0})

\* A login of the owner on SockA.
LoginEventOwner == loginEvent(SockA, Req(OwnerPub, FreshProof(SockA)))

\* Subscribes to the channels of named souls.
SubscribeNode ==
  \E s \in Sockets, ch \in {NodeChannel(SoulA), NodeChannel(SoulB)} :
    subscribeMiddleware(s, ch)

\* The owner's login and per-soul subscribes.
NextSeed ==
  \/ LoginEventOwner
  \/ Login
  \/ Verified
  \/ SubscribeNode
  \/ SubscribeSocket
  \/ ReadNodeDone
  \/ SeedEmit

SpecSeed == InitStored /\ [][NextSeed]_vars

\* The adapter answers every get, and a timer that was set fires.
FairSpecSeed == SpecSeed /\ WF_vars(ReadNodeDone) /\ WF_vars(SeedEmit)

\* Subscribes of SockA to the channel of SoulA, and writes to SoulA by SockB.
SubscribeSoulA == subscribeMiddleware(SockA, NodeChannel(SoulA))

PublishPut == publishInMiddleware(SockB, GunPut, Data(Id(MsgM), TRUE))

PutDoneSoulA ==
  \E w \in WriteSlots :
    \E out \in {o \in PutOutcomes : o.failed \/ o.diff = DiffOf((SoulA :> "set"))} :
      putDone(w, out)

\* Seeds and writes of one soul, side by side.
NextSync ==
  \/ SubscribeSoulA
  \/ SubscribeSocket
  \/ ReadNodeDone
  \/ SeedEmit
  \/ PublishPut
  \/ PutDoneSoulA
  \/ AckEmit

SpecSync == InitDefault /\ [][NextSync]_vars

\* The same, on connections that may close.
NextClose == NextSync \/ Disconnect

SpecClose == InitDefault /\ [][NextClose]_vars

(***************************************************************************)
(* The login handshake (SpecAuth).                                         *)
(***************************************************************************)
\* A login request that carries both pub and proof, with a proof message.
HasCredentials(req) == req.pub # Undefined /\ req.proof.present /\ req.proof.hasM

\* |now - timestamp| > maxDrift, for a timestamp that is a number.
DriftExceeded(req, now) ==
  LET ts == TimestampOf(req.proof.m)
      d  == IF now >= ts.v THEN now - ts.v ELSE ts.v - now
  IN  ~ts.nan /\ d > MaxDriftOf(env).v

NoIdentityStep == authToken' = authToken /\ pending' = pending

\* C1: a login whose proof timestamp is further than maxDrift from now is
\* answered with the clock-drift error; it attaches no identity and does not
\* reach the verifier.
DriftRejected ==
  [][\A now \in Times :
       (authenticateLogin(now) /\ HasCredentials(login.req)
          /\ DriftExceeded(login.req, now))
       => (resp' = Respond(ErrDrift, None) /\ NoIdentityStep)]_vars

DriftRejectedSeen == resp = Respond(ErrDrift, None)

\* The connection id embedded in the proof is not the presenting socket's.
IdMismatch(s, req) == SocketIdOf(req.proof.m) # s

\* C2 as claimed: a login whose proof embeds another connection's id is
\* answered with the socket-id error, for any timestamp.
MismatchRejectedAnyTimestamp ==
  [][\A now \in Times :
       (authenticateLogin(now) /\ HasCredentials(login.req)
          /\ IdMismatch(login.sock, login.req))
       => (resp' = Respond(ErrSocketId, None) /\ NoIdentityStep)]_vars

\* C2 as amended: such a login attaches no identity and does not reach the
\* verifier; it is answered with the socket-id error unless its timestamp
\* is further than maxDrift from now, and with the clock-drift error then.
MismatchRejected ==
  [][\A now \in Times :
       (authenticateLogin(now) /\ HasCredentials(login.req)
          /\ IdMismatch(login.sock, login.req))
       => /\ NoIdentityStep
          /\ resp' = IF DriftExceeded(login.req, now)
                     THEN Respond(ErrDrift, None)
                     ELSE Respond(ErrSocketId, None)]_vars

MismatchRejectedSeen == resp = Respond(ErrSocketId, None)

\* A string of decimal digits, and nothing else.
IsInteger(str) == str # <<>> /\ \A i \in 1..Len(str) : str[i] \in Digits

\* The proof message is not "<connection id>/<integer>".
Malformed(m) == Len(Split(m)) # 2 \/ ~IsInteger(Split(m)[2])

\* C3: a login whose proof message is malformed never attaches an identity
\* and is never answered with success, even when the verifier accepts it.
MalformedRejected ==
  [][\A k \in Slots :
       (verifyDone(k, "true") /\ Malformed(pending[k].req.proof.m))
       => (authToken' = authToken /\ resp' # Respond(None, None))]_vars

\* C4: an identity is attached to a socket only by a login on that socket
\* that had pub and proof, a timestamp within maxDrift of the time of its
\* check, the socket's own id in its proof and a verifier result of true;
\* the identity is the request's pub with the proof's timestamp.  A login
\* reaches the verifier only under these conditions, and only a login the
\* verifier accepts changes the socket's identity.
IdentityOnlyByValidLogin ==
  [][/\ \A now \in Times :
          (authenticateLogin(now) /\ pending' # pending)
          => /\ HasCredentials(login.req)
             /\ ~TimestampOf(login.req.proof.m).nan
             /\ ~DriftExceeded(login.req, now)
             /\ SocketIdOf(login.req.proof.m) = login.sock
             /\ \E k \in Slots : pending'[k] = [live |-> TRUE, sock |-> login.sock,
                                                 req |-> login.req]
     /\ \A s \in Sockets :
          authToken'[s] # authToken[s]
          => \E k \in Slots :
               LET c == pending[k] IN
               /\ verifyDone(k, "true")
               /\ c.sock = s
               /\ authToken'[s] = Token(c.req.pub, TimestampOf(c.req.proof.m))]_vars

\* C5 as claimed: an attached identity never changes.
IdentityImmutable ==
  [][\A s \in Sockets : authToken[s].set => authToken'[s] = authToken[s]]_vars

\* C5 as amended: an attached identity changes only when a later login on
\* the same socket is verified, and then to that login's pub and timestamp;
\* no failed login changes it.
IdentityChangesOnlyByLogin ==
  [][\A s \in Sockets :
       (authToken[s].set /\ authToken'[s] # authToken[s])
       => \E k \in Slots :
            /\ verifyDone(k, "true")
            /\ pending[k].sock = s
            /\ authToken'[s] =
                 Token(pending[k].req.pub, TimestampOf(pending[k].req.proof.m))]_vars

\* A socket with an identity on which a login with another key is at the
\* verifier.
SecondLoginSeen ==
  \E s \in Sockets, k \in Slots :
    /\ authToken[s].set
    /\ pending[k].live
    /\ pending[k].sock = s
    /\ pending[k].req.pub # authToken[s].pub

(***************************************************************************)
(* The gates (SpecGate).                                                   *)
(***************************************************************************)
\* The socket's identity carries the configured owner key.
OwnerIdentity(s) == authToken[s].set /\ authToken[s].pub = env.GUN_OWNER_PUB

\* C6: a subscribe to gun/put or gun/get is allowed exactly when the socket
\* has the owner's identity; otherwise it is denied with an error, and the
\* denial starts no read of the adapter and emits nothing.
PrivilegedSubscribeOwnerOnly ==
  [][\A s \in Sockets, ch \in {GunPut, GunGet} :
       subscribeMiddleware(s, ch)
       => /\ gate'.allow <=> OwnerIdentity(s)
          /\ ~OwnerIdentity(s)
               => /\ gate' = Deny(ErrSubscribe)
                  /\ seeds' = seeds
                  /\ emitted' = emitted]_vars

\* A subscribe was denied while a socket holds another key's identity.
SubscribeDeniedSeen ==
  /\ gate = Deny(ErrSubscribe)
  /\ \E s \in Sockets : authToken[s].set /\ ~OwnerIdentity(s)

\* C7: a publish on a channel other than gun/put is allowed exactly when
\* the socket has the owner's identity, and denied with an error otherwise;
\* either way it starts no put, no acknowledgment and no fan-out.
OtherChannelPublishOwnerOnly ==
  [][\A s \in Sockets, ch \in PubChannels \ {GunPut}, msg \in PubMsgs :
       publishInMiddleware(s, ch, msg)
       => /\ gate'.allow <=> OwnerIdentity(s)
          /\ ~OwnerIdentity(s) => gate' = Deny(ErrPublish)
          /\ writes' = writes
          /\ store' = store
          /\ published' = published
          /\ emitted' = emitted]_vars

\* A publish was denied while a socket holds another key's identity.
PublishDeniedSeen ==
  /\ gate = Deny(ErrPublish)
  /\ \E s \in Sockets : authToken[s].set /\ ~OwnerIdentity(s)

(***************************************************************************)
(* Puts, acknowledgments and fan-out (SpecWrite, FairSpecWrite).           *)
(***************************************************************************)
\* The positions of emitted that hold the acknowledgment of write w.
AcksOf(w) == {i \in DOMAIN emitted : emitted[i].data.id = AckId(w)}

\* The acknowledgment the claim expects for write w.
ExpectedAck(w) ==
  [sock    |-> writes[w].sock,
   channel |-> ReplyPrefix \o Template(writes[w].id),
   data    |-> [id |-> AckId(w), reply |-> writes[w].id,
                err |-> IF writes[w].ok THEN "null" ELSE "Error saving",
                ok |-> IF writes[w].ok THEN "true" ELSE "false",
                put |-> PutAbsent]]

AckOnce ==
  \A w \in WriteSlots :
    /\ writes[w].stage # "done" => AcksOf(w) = {}
    /\ writes[w].stage = "done"
         => /\ Cardinality(AcksOf(w)) = 1
            /\ \A i \in AcksOf(w) : emitted[i] = ExpectedAck(w)
    /\ \A i \in DOMAIN published : published[i].data.id # AckId(w)

AckTellsOutcome ==
  \A w \in WriteSlots : \A out \in PutOutcomes :
    putDone(w, out) => writes'[w].ok = ~out.failed

\* C8: every put-carrying publish on gun/put gets exactly one
\* acknowledgment, emitted to its own socket on gun/@<id> with '@' the
\* message's id; it says ok exactly when the adapter's put succeeded and
\* 'Error saving' exactly when it failed.
PutAcknowledged ==
  /\ []AckOnce
  /\ [][AckTellsOutcome]_vars
  /\ \A w \in WriteSlots :
       (writes[w].stage = "putting") ~> (writes[w].stage = "done")

\* Both kinds of acknowledgment were emitted, one to each socket.
BothAcksSeen ==
  \E i, j \in DOMAIN emitted :
    /\ emitted[i].data.ok = "true"
    /\ emitted[j].data.ok = "false"
    /\ emitted[i].sock # emitted[j].sock

\* A diff without souls: null, undefined, or an empty map.
EmptyDiff(diff) == diff.kind # "map" \/ DOMAIN diff.map = {}

\* C9: a put that fails, and a put whose diff is empty, publishes nothing.
EmptyDiffSilent ==
  [][\A w \in WriteSlots : \A out \in PutOutcomes :
       (putDone(w, out) /\ (out.failed \/ EmptyDiff(out.diff)))
       => published' = published]_vars

\* A put succeeded and nothing was published.
SilentPutSeen ==
  /\ published = <<>>
  /\ \E w \in WriteSlots : writes[w].stage = "done" /\ writes[w].ok

\* What a step added to published.
NewlyPublished == SubSeq(published', Len(published) + 1, Len(published'))

\* The fan-out of one diff: for every soul, one message on its channel when
\* Wanted(soul) and none otherwise; one message with the diff on gun/put/diff.
FanOutIs(new, diff, Wanted(_)) ==
  LET On(ch) == {i \in DOMAIN new : new[i].channel = ch} IN
  /\ Cardinality(On(DiffChannel)) = 1
  /\ \A b \in On(DiffChannel) :
       /\ new[b].data.put = diff
       /\ \A soul \in Souls :
            IF Wanted(soul)
            THEN /\ Cardinality(On(NodeChannel(soul))) = 1
                 /\ \A i \in On(NodeChannel(soul)) :
                      /\ new[i].data.id = Id(new[b].data.id.s \o <<"/">> \o soul)
                      /\ new[i].data.put = PutMap((soul :> diff.map[soul]))
            ELSE On(NodeChannel(soul)) = {}
  /\ Len(new) = 1 + Cardinality({soul \in Souls : Wanted(soul)})

\* C10 as claimed: the fan-out of a non-empty diff is one message for every
\* soul of the diff with a non-null entry, and the broadcast.
FanOutPerSoul ==
  [][\A w \in WriteSlots : \A out \in PutOutcomes :
       (putDone(w, out) /\ ~out.failed /\ ~EmptyDiff(out.diff))
       => LET InDiff(soul) == soul \in DOMAIN out.diff.map /\ out.diff.map[soul] # 0
          IN  FanOutIs(NewlyPublished, out.diff, InDiff)]_vars

\* C10 as amended: one message for every soul of the diff with a non-empty
\* name and a non-null entry, none for the others, and the broadcast.
FanOutPerNamedSoul ==
  [][\A w \in WriteSlots : \A out \in PutOutcomes :
       (putDone(w, out) /\ ~out.failed /\ ~EmptyDiff(out.diff))
       => LET InDiff(soul) ==
                /\ soul # <<>>
                /\ soul \in DOMAIN out.diff.map
                /\ out.diff.map[soul] # 0
          IN  FanOutIs(NewlyPublished, out.diff, InDiff)]_vars

\* One diff was published to the channels of two souls and broadcast.
TwoSoulFanOutSeen ==
  \E i, j, b \in DOMAIN published :
    /\ published[i].channel = NodeChannel(SoulA)
    /\ published[j].channel = NodeChannel(SoulB)
    /\ published[b].channel = DiffChannel
    /\ published[i].data.id = Id(published[b].data.id.s \o <<"/">> \o SoulA)
    /\ published[j].data.id = Id(published[b].data.id.s \o <<"/">> \o SoulB)

(***************************************************************************)
(* Subscription seeds (SpecSeed, FairSpecSeed).                            *)
(***************************************************************************)
\* The positions of emitted that hold the seed of subscribe k.
SeedsOf(k) == {i \in DOMAIN emitted : emitted[i].data.id = SeedId(k)}

\* Before its timer fires a subscribe has emitted nothing; afterwards its
\* seed was emitted once, to its own socket and on its own channel.
SeedOnce ==
  \A k \in SeedSlots :
    /\ seeds[k].stage # "done" => SeedsOf(k) = {}
    /\ seeds[k].stage = "done"
         => /\ Cardinality(SeedsOf(k)) = 1
            /\ \A i \in SeedsOf(k) :
                 /\ emitted[i].sock = seeds[k].sock
                 /\ emitted[i].channel = NodeChannel(seeds[k].soul)
                 /\ emitted[i].channel = seeds[k].channel
                 /\ emitted[i].data = seeds[k].data
    /\ \A i \in DOMAIN published : published[i].data.id # SeedId(k)

\* A subscribe to the channel of a named soul is allowed whoever asks, and
\* starts the seed of that soul for that socket.
SeedStarted ==
  \A s \in Sockets, soul \in Souls \ {EmptySoul} :
    subscribeMiddleware(s, NodeChannel(soul))
    => /\ gate' = Allow
       /\ \E k \in SeedSlots :
            /\ seeds[k].stage = "free"
            /\ seeds'[k].stage = "reading"
            /\ seeds'[k].sock = s
            /\ seeds'[k].soul = soul
            /\ \A j \in SeedSlots \ {k} : seeds'[j] = seeds[j]

\* The seed says what the get answered: the node under its soul, null for
\* no node, the error and no put for a failure.
SeedTellsNode ==
  \A k \in SeedSlots, failed \in BOOLEAN :
    readNodeDone(k, failed)
    => LET soul == seeds[k].soul
           msg  == seeds'[k].data
       IN  /\ msg.id = SeedId(k)
           /\ failed => msg.err = "Error fetching node" /\ msg.put = PutAbsent
           /\ (~failed /\ store[soul] # 0)
                => msg.err = Absent /\ msg.put = PutMap((soul :> store[soul]))
           /\ (~failed /\ store[soul] = 0)
                => msg.err = Absent /\ msg.put = PutNull

\* C11: every subscribe to gun/nodes/<soul> with a non-empty soul, by a
\* socket with or without identity, is allowed and eventually gets exactly
\* one seed, emitted to that socket on that channel: {soul: node} when the
\* get answers a node, null when it answers none, and err 'Error fetching
\* node' when it fails.
NodeSubscribeSeeded ==
  /\ []SeedOnce
  /\ [][SeedStarted]_vars
  /\ [][SeedTellsNode]_vars
  /\ \A k \in SeedSlots :
       (seeds[k].stage = "reading") ~> (seeds[k].stage = "done")

\* The owner got a seed with a node, and another socket a seed with err.
SeedKindsSeen ==
  \E i, j \in DOMAIN emitted :
    /\ emitted[i].data.put.kind = "map"
    /\ OwnerIdentity(emitted[i].sock)
    /\ emitted[j].data.err = "Error fetching node"
    /\ ~authToken[emitted[j].sock].set

\* C12: a seed is emitted to a socket only when the transport has
\* registered that socket's subscription to the seed's channel.
SeedAfterRegistration ==
  [][\A k \in SeedSlots :
       seedEmit(k) => Subscribed(seeds[k].sock, seeds[k].channel)]_vars

(***************************************************************************)
(* The order of a fan-out (SpecWrite).                                     *)
(***************************************************************************)
\* C13: in the fan-out of a diff the message on gun/put/diff is the last
\* publication, there is one only, and it is the envelope given to
\* publishDiff: its id and its put.
BroadcastLast ==
  [][\A w \in WriteSlots : \A out \in PutOutcomes :
       (putDone(w, out) /\ ~out.failed /\ ~EmptyDiff(out.diff))
       => LET new == NewlyPublished
              n   == Len(new)
          IN  /\ n >= 1
              /\ new[n] = Publish(DiffChannel,
                                  Msg(Id(DiffId(w)), NoId, Absent, Absent, out.diff))
              /\ \A i \in 1..(n - 1) :
                   /\ new[i].channel # DiffChannel
                   /\ \E soul \in DOMAIN out.diff.map :
                        new[i].channel = NodeChannel(soul)]_vars

\* A broadcast that follows a per-soul message of its own diff.
BroadcastAfterPerSoulSeen ==
  \E b \in DOMAIN published :
    /\ b > 1
    /\ published[b].channel = DiffChannel
    /\ published[b - 1].channel # DiffChannel
    /\ published[b - 1].data.id
         = Id(published[b].data.id.s \o <<"/">> \o StripNodesPrefix(published[b - 1].channel))

(***************************************************************************)
(* The write channel (SpecOpen).                                           *)
(***************************************************************************)
\* C14: a publish on gun/put passes the gate whatever the socket's
\* identity; without a message or without a put payload nothing else
\* happens: no put starts, nothing is emitted, published or stored.
WritePublishOpen ==
  [][\A s \in Sockets, msg \in PubMsgs :
       publishInMiddleware(s, GunPut, msg)
       => /\ gate' = Allow
          /\ (~msg.present \/ ~msg.hasPut)
               => /\ writes' = writes
                  /\ store' = store
                  /\ published' = published
                  /\ emitted' = emitted
                  /\ delivered' = delivered]_vars

\* A publish passed and started nothing, on a worker whose only publisher
\* holds the identity of another key than the owner's.
PassedNoPutSeen ==
  /\ gate = Allow
  /\ \A w \in WriteSlots : writes[w] = NoWrite
  /\ emitted = <<>>
  /\ authToken[SockA].set
  /\ ~OwnerIdentity(SockA)

(***************************************************************************)
(* Failed logins (SpecAuth).                                               *)
(***************************************************************************)
\* A response that rejects the login.
Rejection(r) ==
  r \in {Respond(None, MsgMissing), Respond(None, MsgInvalid),
         Respond(ErrDrift, None), Respond(ErrSocketId, None)}

\* The logins not answered yet are those still being handled: every login
\* that was handled to its end got one response.
ResponsesOwed ==
  awaiting = (IF login.live THEN 1 ELSE 0) + Cardinality({k \in Slots : pending[k].live})

\* A login that ends before the verifier is answered in that step with a
\* rejection; one that goes on to the verifier is not answered yet.  Neither
\* touches an identity or a connection.
EarlyFailureHarmless ==
  \A now \in Times :
    authenticateLogin(now)
    => /\ authToken' = authToken
       /\ open' = open
       /\ IF pending' = pending
          THEN awaiting' = awaiting - 1 /\ Rejection(resp')
          ELSE awaiting' = awaiting

\* When the verifier settles the login is answered once.  A login whose
\* proof is well formed and verified succeeds, also after failures on the
\* same socket; every other one is rejected and leaves the identities and
\* the connections as they were.
LateFailureHarmless ==
  \A k \in Slots, r \in VerifyResults :
    verifyDone(k, r)
    => /\ awaiting' = awaiting - 1
       /\ open' = open
       /\ IF r = "true" /\ ~Malformed(pending[k].req.proof.m)
          THEN /\ resp' = Respond(None, None)
               /\ authToken' = [authToken EXCEPT ![pending[k].sock] =
                    Token(pending[k].req.pub, TimestampOf(pending[k].req.proof.m))]
          ELSE /\ Rejection(resp')
               /\ authToken' = authToken

\* C15: every failed login (missing credentials, malformed proof, drift,
\* mismatch, verifier false or throwing) is answered exactly once, leaves
\* the socket's identity as it was and the connection open, and a later
\* valid login on the socket succeeds.
FailedLoginHarmless ==
  /\ []ResponsesOwed
  /\ [][EarlyFailureHarmless]_vars
  /\ [][LateFailureHarmless]_vars

(***************************************************************************)
(* The order of writes to one soul (SpecWrite).                            *)
(***************************************************************************)
\* The node a per-soul message carries: the state of the soul after the
\* write it comes from, which numbers the writes the adapter applied to
\* that soul.
NodeIn(p) == p.data.put.map[StripNodesPrefix(p.channel)]

SeedState(msg, soul) == IF msg.put.kind = "map" THEN msg.put.map[soul] ELSE 0

\* The states of the soul that per-soul diffs have brought to the socket on
\* the channel.
DiffsDelivered(s, ch) ==
  { NodeIn(delivered[i]) : i \in { j \in DOMAIN delivered :
      /\ delivered[j].sock = s
      /\ delivered[j].channel = ch
      /\ \E q \in DOMAIN published : published[q] = Publish(ch, delivered[j].data) } }

\* When a seed with a snapshot reaches its socket, every write applied to
\* the soul so far is in the snapshot or was delivered as a diff, and no
\* diff delivered before is newer than the snapshot.
SeedCoversWrites ==
  \A k \in SeedSlots :
    (seedEmit(k) /\ seeds[k].data.err = Absent /\ open[seeds[k].sock])
    => LET s    == seeds[k].sock
           ch   == seeds[k].channel
           soul == seeds[k].soul
           v    == SeedState(seeds[k].data, soul)
       IN  /\ \A n \in 1..store[soul] : n <= v \/ n \in DiffsDelivered(s, ch)
           /\ \A n \in DiffsDelivered(s, ch) : n <= v

\* A write applied after a socket got its seed is delivered to it as a diff.
WriteReachesSeeded ==
  \A w \in WriteSlots : \A out \in PutOutcomes :
    (putDone(w, out) /\ ~out.failed)
    => \A k \in SeedSlots :
         LET soul == seeds[k].soul IN
         (/\ seeds[k].stage = "done"
          /\ seeds[k].data.err = Absent
          /\ open[seeds[k].sock]
          /\ store'[soul] # store[soul])
         => \E i \in DOMAIN delivered' :
              /\ i > Len(delivered)
              /\ delivered'[i].sock = seeds[k].sock
              /\ delivered'[i].channel = seeds[k].channel
              /\ NodeIn(delivered'[i]) = store'[soul]

\* C17: snapshot-then-subscribe loses no update: every write applied to a
\* soul is in the seed a connected subscriber receives or reaches it as a
\* per-soul diff, and the seed is never older than a diff it already got.
SnapshotCoversUpdates ==
  /\ [][SeedCoversWrites]_vars
  /\ [][WriteReachesSeeded]_vars

(***************************************************************************)
(* Connections that close (SpecClose).                                     *)
(***************************************************************************)
\* The seed of a closed socket: the timer makes its one call on that socket,
\* which reaches nobody, and ends.
ClosedSeedSilent ==
  \A k \in SeedSlots :
    (seedEmit(k) /\ ~open[seeds[k].sock])
    => /\ delivered' = delivered
       /\ published' = published
       /\ store' = store
       /\ emitted' = Append(emitted, Emit(seeds[k].sock, seeds[k].channel, seeds[k].data))
       /\ seeds'[k].stage = "done"

\* The acknowledgment of a closed socket, likewise.
ClosedAckSilent ==
  \A w \in WriteSlots :
    (ackEmit(w) /\ ~open[writes[w].sock])
    => /\ delivered' = delivered
       /\ published' = published
       /\ store' = store
       /\ Len(emitted') = Len(emitted) + 1
       /\ emitted'[Len(emitted')].sock = writes[w].sock
       /\ writes'[w].stage = "done"

\* The write of a closed socket is applied and reaches the subscribers of
\* the soul it changed.
ClosedWriteApplied ==
  \A w \in WriteSlots : \A out \in PutOutcomes :
    (putDone(w, out) /\ ~out.failed /\ ~open[writes[w].sock])
    => /\ store' = Applied(out.diff)
       /\ \A s \in Sockets, soul \in Souls \ {EmptySoul} :
            (Subscribed(s, NodeChannel(soul)) /\ store'[soul] # store[soul])
            => \E i \in DOMAIN delivered' :
                 /\ i > Len(delivered)
                 /\ delivered'[i].sock = s
                 /\ delivered'[i].channel = NodeChannel(soul)
                 /\ NodeIn(delivered'[i]) = store'[soul]

SubscribeReadsOnly ==
  (\/ \E s \in Sockets, ch \in SubChannels : subscribeMiddleware(s, ch)
   \/ \E k \in SeedSlots, failed \in BOOLEAN : readNodeDone(k, failed)
   \/ \E k \in SeedSlots : seedEmit(k))
  => (store' = store /\ published' = published /\ writes' = writes)

\* No write was applied to the soul since seed j was read.  A seed with err
\* does not tell the state it was read in: then, no put has succeeded at all.
NoWriteSince(j) ==
  IF seeds[j].data.err = Absent
  THEN store[seeds[j].soul] = SeedState(seeds[j].data, seeds[j].soul)
  ELSE \A w \in WriteSlots : writes[w].stage \in {"free", "putting"} \/ ~writes[w].ok

\* The seed read now has the put payload of every seed of the same channel
\* read before it, when Both(j, failed) and no write came in between.
SameSeedAs(Both(_, _)) ==
  \A k \in SeedSlots, failed \in BOOLEAN :
    readNodeDone(k, failed)
    => \A j \in SeedSlots \ {k} :
         (/\ seeds[j].stage \in {"timer", "done"}
          /\ seeds[j].channel = seeds[k].channel
          /\ NoWriteSince(j)
          /\ Both(j, failed))
         => seeds'[k].data.put = seeds[j].data.put

\* Any two gets, and two gets that both succeed.
AnyTwo(j, failed) == TRUE
BothRead(j, failed) == ~failed /\ seeds[j].data.err = Absent

\* C19 as claimed: subscribing never changes the graph and never publishes,
\* and two subscribes to one soul channel with no write to the soul in
\* between get seeds with the same put payload.
SeedsIdentical == [][SubscribeReadsOnly /\ SameSeedAs(AnyTwo)]_vars

\* C19 as amended: the same, for two subscribes whose gets both succeed.
SnapshotsIdentical == [][SubscribeReadsOnly /\ SameSeedAs(BothRead)]_vars

\* Two seeds of SoulA with the same node, read after a write.
TwoEqualSnapshotsSeen ==
  /\ \A k \in SeedSlots : seeds[k].stage = "done"
  /\ seeds[1].data.put = seeds[2].data.put
  /\ seeds[1].data.put.kind = "map"
  /\ store[SoulA] = SeedState(seeds[1].data, SoulA)

(***************************************************************************)
(* Fan-out and acknowledgment of one write (SpecWrite).                    *)
(***************************************************************************)
\* When a put with a non-empty diff settles, its whole fan-out is published
\* in that step, and its acknowledgment has not been emitted.
FanOutAtSettle ==
  \A w \in WriteSlots : \A out \in PutOutcomes :
    (putDone(w, out) /\ ~out.failed /\ ~EmptyDiff(out.diff))
    => LET new == NewlyPublished IN
       /\ AcksOf(w) = {}
       /\ emitted' = emitted
       /\ \E b \in DOMAIN new :
            new[b].channel = DiffChannel /\ new[b].data.id = Id(DiffId(w))
       /\ \A soul \in DOMAIN out.diff.map :
            (soul # <<>> /\ out.diff.map[soul] # 0)
            => \E i \in DOMAIN new :
                 /\ new[i].channel = NodeChannel(soul)
                 /\ new[i].data.id = Id(DiffId(w) \o <<"/">> \o soul)

\* The acknowledgment is emitted for a put that has settled, and publishes
\* nothing.
AckAfterSettle ==
  \A w \in WriteSlots :
    ackEmit(w) => (writes[w].stage = "settled" /\ published' = published)

\* C20: the fan-out of a write with a non-empty diff, every per-soul
\* message and the broadcast, is published before the acknowledgment of
\* that write is emitted.
FanOutBeforeAck ==
  /\ [][FanOutAtSettle]_vars
  /\ [][AckAfterSettle]_vars
  /\ [](\A w \in WriteSlots : AcksOf(w) # {} => writes[w].stage = "done")

\* A write was acknowledged with ok, and its broadcast is published.
AckedFanOutSeen ==
  \E w \in WriteSlots :
    /\ \E i \in AcksOf(w) : emitted[i].data.ok = "true"
    /\ \E b \in DOMAIN published :
         published[b].channel = DiffChannel /\ published[b].data.id = Id(DiffId(w))
====
